---- MODULE Spec2Model ----
(***************************************************************************)
(* nanobot webhook gateway: GatewayServer (gateway/server.py) and the      *)
(* WebhookChannel base class (channels/webhook.py).                        *)
(*                                                                         *)
(* The state is the gateway object after __init__ (self.channels, the      *)
(* route list of self.app, self._server), the uvicorn.Server objects that  *)
(* start_async() creates, the pending start_async() calls, and the request *)
(* tasks running webhook_handler on the event loop.  A request task is     *)
(* suspended at the two awaits of webhook_handler: request.json() and      *)
(* ch.handle_webhook().                                                    *)
(*                                                                         *)
(* Strings are Python strings; f-strings are modelled by concatenation.    *)
(* The listener is assumed to bind (no EADDRINUSE), OS signals are not    *)
(* part of the model, and requests carry no query string.                  *)
(***************************************************************************)
EXTENDS Integers, Sequences, FiniteSets, TLC

VARIABLES
  channels,     \* self.channels: the mapping, as the sequence of its values in dict order
  app,          \* self.app: the route list of the FastAPI application, in registration order
  _server,      \* self._server: None or the uvicorn.Server of the latest start_async()
  should_exit,  \* should_exit flag of every uvicorn.Server created so far
  serve_pc,     \* position of every start_async() call
  stop_seen,    \* history: the start_async() calls during which stop() has been called
  requests      \* the request tasks of the event loop; invoked, returned and raised
                \* record what the channel's handle_webhook was given and did

vars == <<channels, app, _server, should_exit, serve_pc, stop_seen, requests>>

None == "None"

\* ---- bounds -------------------------------------------------------------
MaxChannels == 2      \* entries of the channels mapping
MaxRequests == 2      \* request tasks
MaxStarts == 2        \* start_async() calls

\* ---- inputs -------------------------------------------------------------
ChannelNames == <<"telegram", "feishu", "slack">>
PathValues == {"", "hook"}
Methods == {"GET", "POST"}
GoodBody == "{\"text\": \"hi\"}"
BadBody == "{\"text\": "
Bodies == {GoodBody, BadBody}
Mappings == {[echo |-> 42], [error |-> "bad signature"]}

\* A channel configuration object: either attribute may be missing.
ChannelConfigs ==
  { [webhook_enabled |-> e, webhook_path |-> p] : e \in BOOLEAN, p \in PathValues }
    \cup { [webhook_enabled |-> e] : e \in BOOLEAN }
    \cup { [webhook_path |-> p] : p \in PathValues }
    \cup { [x \in {} |-> None] }

getattr(config, attr, default) ==
  IF attr \in DOMAIN config THEN config[attr] ELSE default

\* ---- channels/webhook.py ------------------------------------------------
BaseChannel(name) ==
  [kind |-> "BaseChannel", name |-> name,
   _webhook_enabled |-> FALSE, _webhook_path |-> None]

WebhookChannelInit(name, config) ==
  [kind |-> "WebhookChannel", name |-> name,
   _webhook_enabled |-> getattr(config, "webhook_enabled", TRUE),
   _webhook_path |-> getattr(config, "webhook_path", None)]

isinstance_WebhookChannel(channel) == channel.kind = "WebhookChannel"

webhook_enabled(channel) == channel._webhook_enabled

\* Faulty variant: the test is "is not None".
IsNotNone(s) == s # None

\* Python truthiness of the configured path: None and "" are falsy.
Truthy(s) == s # None /\ s # ""

webhook_path(channel) ==
  IF Truthy(channel._webhook_path)
  THEN "/webhook/$" \o channel._webhook_path
  ELSE "/webhook/" \o channel.name

\* ---- gateway/server.py: construction -----------------------------------
HealthRoute ==
  [method |-> "GET", path |-> "/health", endpoint |-> "health_check", ch |-> 0]

\* Faulty variant: the handler reads the loop variable when it runs, after the loop.
LastChannel(chans, i) == Len(chans)

\* ch=channel: the default argument is evaluated when the handler is defined,
\* so the route keeps the channel of its own loop iteration.
BoundChannel(chans, i) == i

WebhookRoute(chans, i) ==
  LET channel == chans[i]
      channel_name == chans[i].name
      path == IF webhook_path(channel) # None
              THEN webhook_path(channel) ELSE channel_name
  IN [method |-> "POST", path |-> "/webhook/" \o path,
      endpoint |-> "webhook_handler", ch |-> BoundChannel(chans, i)]

\* Faulty variant: the loop forgets the enabled flag.
AnyWebhookChannel(channel) == isinstance_WebhookChannel(channel)

\* The test of the loop: only enabled WebhookChannel instances get a route.
ShouldRegister(channel) ==
  isinstance_WebhookChannel(channel) /\ webhook_enabled(channel)

RECURSIVE RegisterFrom(_, _, _)
RegisterFrom(routes, chans, i) ==
  IF i > Len(chans) THEN routes
  ELSE IF ShouldRegister(chans[i])
       THEN RegisterFrom(Append(routes, WebhookRoute(chans, i)), chans, i + 1)
       ELSE RegisterFrom(routes, chans, i + 1)

_register_webhooks(routes, chans) == RegisterFrom(routes, chans, 1)

\* Faulty variant: the liveness route is not registered.
_create_app_without_health(chans) == _register_webhooks(<<>>, chans)

_create_app(chans) == _register_webhooks(<<HealthRoute>>, chans)

\* The channel objects a caller can put under the i-th key.
ChannelObjects(i) ==
  {BaseChannel(ChannelNames[i])}
    \cup {WebhookChannelInit(ChannelNames[i], c) : c \in ChannelConfigs}

\* The non-empty mappings a caller can pass: up to MaxChannels entries.
ChannelMappings ==
  UNION { { m \in [1..n -> UNION {ChannelObjects(i) : i \in 1..n}] :
              \A i \in 1..n : m[i] \in ChannelObjects(i) }
          : n \in 1..MaxChannels }

\* The channels argument of __init__: None, {} or a mapping.
ChannelArgs ==
  {[given |-> FALSE, value |-> <<>>], [given |-> TRUE, value |-> <<>>]}
    \cup {[given |-> TRUE, value |-> m] : m \in ChannelMappings}

\* self.channels = channels or {}
channels_or_empty(arg) ==
  IF arg.given /\ Len(arg.value) > 0 THEN arg.value ELSE <<>>

Calls == 1..MaxStarts
Tasks == 1..MaxRequests

IdleTask ==
  [pc |-> "idle", method |-> None, path |-> None, body |-> None, srv |-> 0,
   ch |-> 0, invoked |-> <<>>, returned |-> <<>>, raised |-> FALSE,
   status |-> 0, response |-> [x \in {} |-> None]]

__init__(arg) ==
  /\ channels = channels_or_empty(arg)
  /\ _server = 0
  /\ app = _create_app(channels_or_empty(arg))
  /\ should_exit = [c \in Calls |-> FALSE]
  /\ serve_pc = [c \in Calls |-> "idle"]
  /\ stop_seen = {}
  /\ requests = [r \in Tasks |-> IdleTask]

Init == \E arg \in ChannelArgs : __init__(arg)

\* ---- gateway/server.py: lifecycle ---------------------------------------
Running(c) == serve_pc[c] \in {"serving", "shutdown"}

\* start_async(): a new uvicorn.Server replaces self._server; the caller is
\* suspended in serve().  Calls are numbered in the order they are made.
start_async(c) ==
  /\ serve_pc[c] = "idle"
  /\ \A d \in Calls : d < c => serve_pc[d] # "idle"
  /\ _server' = c
  /\ should_exit' = [should_exit EXCEPT ![c] = FALSE]
  /\ serve_pc' = [serve_pc EXCEPT ![c] = "serving"]
  /\ UNCHANGED <<channels, app, stop_seen, requests>>

\* Faulty variant: stop() flips the flag of the stored server.
stop_toggles ==
  /\ should_exit' = IF _server # 0
                    THEN [should_exit EXCEPT ![_server] = ~@]
                    ELSE should_exit
  /\ stop_seen' = stop_seen \cup {c \in Calls : Running(c)}
  /\ UNCHANGED <<channels, app, _server, serve_pc, requests>>

\* Faulty variant: stop() signals every server that is running.
stop_all ==
  /\ should_exit' = [c \in Calls |-> should_exit[c] \/ Running(c)]
  /\ stop_seen' = stop_seen \cup {c \in Calls : Running(c)}
  /\ UNCHANGED <<channels, app, _server, serve_pc, requests>>

\* stop(): sets the flag of the stored server, if there is one.
stop ==
  /\ should_exit' = IF _server # 0
                    THEN [should_exit EXCEPT ![_server] = TRUE]
                    ELSE should_exit
  /\ stop_seen' = stop_seen \cup {c \in Calls : Running(c)}
  /\ UNCHANGED <<channels, app, _server, serve_pc, requests>>

\* Faulty variant: the main loop ends without looking at the flag.
MainLoopExitsAnyTime(c) == TRUE

\* Faulty variant: the main loop never looks at the flag.
MainLoopIgnoresFlag(c) == FALSE

\* serve(): the main loop runs until it sees should_exit.
MainLoopMayExit(c) == should_exit[c]

main_loop_exit(c) ==
  /\ serve_pc[c] = "serving"
  /\ MainLoopMayExit(c)
  /\ serve_pc' = [serve_pc EXCEPT ![c] = "shutdown"]
  /\ UNCHANGED <<channels, app, _server, should_exit, stop_seen, requests>>

InFlight(r) == requests[r].pc \in {"json", "handle_webhook"}

\* Faulty variant: shutdown does not wait for the request tasks.
DrainSkipped(c) == TRUE

\* No request task of server c is in flight.
Drained(c) == \A r \in Tasks : InFlight(r) => requests[r].srv # c

\* serve(): shutdown waits for the server's request tasks, then serve()
\* returns and with it start_async().
serve_returns(c) ==
  /\ serve_pc[c] = "shutdown"
  /\ Drained(c)
  /\ serve_pc' = [serve_pc EXCEPT ![c] = "returned"]
  /\ UNCHANGED <<channels, app, _server, should_exit, stop_seen, requests>>

\* ---- gateway/server.py: requests ----------------------------------------
\* Starlette's router: the first route whose path and method match.
RECURSIVE MatchFrom(_, _, _, _)
MatchFrom(routes, method, path, i) ==
  IF i > Len(routes) THEN 0
  ELSE IF routes[i].path = path /\ routes[i].method = method THEN i
       ELSE MatchFrom(routes, method, path, i + 1)

\* Faulty variant: a later registration replaces an earlier one.
MatchLastRoute(routes, method, path) ==
  LET hits == {i \in 1..Len(routes) :
                 routes[i].path = path /\ routes[i].method = method}
  IN IF hits = {} THEN 0 ELSE CHOOSE i \in hits : \A k \in hits : k <= i

MatchRoute(routes, method, path) == MatchFrom(routes, method, path, 1)

PathKnown(routes, path) == \E i \in 1..Len(routes) : routes[i].path = path

HeadersOf(r) == [x_request_id |-> r]

JSONDecodeError == [error |-> "JSONDecodeError"]

\* request.json(): json.loads of the body.
json_loads(body) ==
  IF body = GoodBody THEN [ok |-> TRUE, value |-> [text |-> "hi"]]
  ELSE [ok |-> FALSE, value |-> JSONDecodeError]

health_check == [status |-> "ok"]

NotFound == [status |-> 404, body |-> [detail |-> "Not Found"]]
MethodNotAllowed == [status |-> 405, body |-> [detail |-> "Method Not Allowed"]]
ServerError == [status |-> 500, body |-> [detail |-> "Internal Server Error"]]
JSONResponse(content) == [status |-> 200, body |-> content]

Finish(r, resp) ==
  [requests EXCEPT ![r].pc = "done", ![r].status = resp.status,
                   ![r].response = resp.body]

\* The request paths a client tries: /health, and for every channel of the
\* mapping the path the spec derives and the path the code derives.
ClientPaths ==
  {"/health"}
    \cup {"/webhook/" \o channels[i].name : i \in 1..Len(channels)}
    \cup {"/webhook/" \o channels[i]._webhook_path :
            i \in {j \in 1..Len(channels) : channels[j]._webhook_path # None}}
    \cup {"/webhook/" \o webhook_path(channels[i]) : i \in 1..Len(channels)}

\* A connection is accepted by a listening server and the request is routed.
\* Request tasks are numbered in the order they are accepted.
accept(r, c, method, path, body) ==
  /\ requests[r].pc = "idle"
  /\ \A q \in Tasks : q < r => requests[q].pc # "idle"
  /\ serve_pc[c] = "serving"
  /\ LET i == MatchRoute(app, method, path)
         fresh == [IdleTask EXCEPT !.method = method, !.path = path,
                                   !.body = body, !.srv = c]
         started == [requests EXCEPT ![r] = fresh]
     IN requests' =
          IF i = 0
          THEN IF PathKnown(app, path)
               THEN [started EXCEPT ![r].pc = "done", ![r].status = 405,
                                    ![r].response = MethodNotAllowed.body]
               ELSE [started EXCEPT ![r].pc = "done", ![r].status = 404,
                                    ![r].response = NotFound.body]
          ELSE IF app[i].endpoint = "health_check"
               THEN [started EXCEPT ![r].pc = "done", ![r].status = 200,
                                    ![r].response = health_check]
               ELSE [started EXCEPT ![r].pc = "json", ![r].ch = app[i].ch]
  /\ UNCHANGED <<channels, app, _server, should_exit, serve_pc, stop_seen>>

\* data = await request.json(); then ch.handle_webhook(headers, data) is
\* called and the task is suspended inside it.
HandlerArgs(r, data) == [ch |-> requests[r].ch, headers |-> HeadersOf(r), data |-> data]

\* Faulty variant: the exception ends every task that is in flight.
FailureAbortsAll(r) ==
  [q \in Tasks |-> IF q = r \/ InFlight(q)
                   THEN Finish(q, ServerError)[q]
                   ELSE requests[q]]

\* request.json() raises: the exception leaves webhook_handler of this task.
DecodeFailure(r) == Finish(r, ServerError)

\* Faulty variant: a handler that is running keeps the other tasks from resuming.
CanResumeSerialized(r) ==
  \A q \in Tasks : q # r => requests[q].pc # "handle_webhook"

\* Tasks are independent: a task whose await is complete is resumed whatever
\* the other tasks are waiting for.
CanResume(r) == TRUE

read_json(r) ==
  /\ requests[r].pc = "json"
  /\ CanResume(r)
  /\ LET d == json_loads(requests[r].body)
     IN requests' =
          IF d.ok
          THEN [requests EXCEPT ![r].pc = "handle_webhook",
                 ![r].invoked = Append(@, HandlerArgs(r, d.value))]
          ELSE DecodeFailure(r)
  /\ UNCHANGED <<channels, app, _server, should_exit, serve_pc, stop_seen>>

\* Faulty variant: the bridge wraps the mapping.
HandlerResultWrapped(r, m) == Finish(r, JSONResponse([result |-> m]))

\* return await ch.handle_webhook(headers, data): the mapping is the response.
HandlerResult(r, m) == Finish(r, JSONResponse(m))

handler_returns(r, m) ==
  /\ requests[r].pc = "handle_webhook"
  /\ CanResume(r)
  /\ requests' = [HandlerResult(r, m) EXCEPT ![r].returned = <<m>>]
  /\ UNCHANGED <<channels, app, _server, should_exit, serve_pc, stop_seen>>

\* Faulty variant: the bridge starts the request again.
HandlerRetry(r) == [requests EXCEPT ![r].pc = "json"]

\* handle_webhook raises: the exception leaves webhook_handler.
HandlerFailure(r) == Finish(r, ServerError)

handler_raises(r) ==
  /\ requests[r].pc = "handle_webhook"
  /\ CanResume(r)
  /\ requests' = [HandlerFailure(r) EXCEPT ![r].raised = TRUE]
  /\ UNCHANGED <<channels, app, _server, should_exit, serve_pc, stop_seen>>

\* The paths that have a route.
RegisteredPaths == {app[i].path : i \in 1..Len(app)}

WebhookPaths == RegisteredPaths \ {"/health"}

\* Every start_async() and stop() call, every request task, every request.
Next ==
  \/ \E c \in Calls : start_async(c)
  \/ stop
  \/ \E c \in Calls : main_loop_exit(c)
  \/ \E c \in Calls : serve_returns(c)
  \/ \E r \in Tasks, c \in Calls, method \in Methods, path \in ClientPaths, body \in Bodies :
       accept(r, c, method, path, body)
  \/ \E r \in Tasks : read_json(r)
  \/ \E r \in Tasks, m \in Mappings : handler_returns(r, m)
  \/ \E r \in Tasks : handler_raises(r)

Spec == Init /\ [][Next]_vars

\* One start_async() call and one request: the routing of every mapping.
NextRoutes ==
  \/ start_async(1)
  \/ stop
  \/ main_loop_exit(1)
  \/ serve_returns(1)
  \/ \E method \in Methods, path \in ClientPaths, body \in Bodies :
       accept(1, 1, method, path, body)
  \/ read_json(1)
  \/ \E m \in Mappings : handler_returns(1, m)
  \/ handler_raises(1)

SpecRoutes == Init /\ [][NextRoutes]_vars

\* One server that keeps serving, and concurrent POSTs to the webhook routes.
NextDispatch ==
  \/ start_async(1)
  \/ \E r \in Tasks, path \in WebhookPaths, body \in Bodies :
       accept(r, 1, "POST", path, body)
  \/ \E r \in Tasks : read_json(r)
  \/ \E r \in Tasks, m \in Mappings : handler_returns(r, m)
  \/ \E r \in Tasks : handler_raises(r)

SpecDispatch == Init /\ [][NextDispatch]_vars

\* Every start_async() and stop() call of a gateway with one webhook
\* channel, with well-formed POSTs to its route in flight.
InitLifecycle ==
  __init__([given |-> TRUE,
            value |-> <<WebhookChannelInit(ChannelNames[1], [x \in {} |-> None])>>])

NextLifecycle ==
  \/ \E c \in Calls : start_async(c)
  \/ stop
  \/ \E c \in Calls : main_loop_exit(c)
  \/ \E c \in Calls : serve_returns(c)
  \/ \E r \in Tasks, c \in Calls, path \in WebhookPaths :
       accept(r, c, "POST", path, GoodBody)
  \/ \E r \in Tasks : read_json(r)
  \/ \E r \in Tasks, m \in Mappings : handler_returns(r, m)
  \/ \E r \in Tasks : handler_raises(r)

SpecLifecycle == InitLifecycle /\ [][NextLifecycle]_vars

\* ---- vocabulary of the claims -------------------------------------------
Chans == 1..Len(channels)

IsEnabledWebhook(i) ==
  channels[i].kind = "WebhookChannel" /\ channels[i]._webhook_enabled

\* The routes whose handler is bound to channel i.
RoutesTo(i) ==
  {k \in 1..Len(app) : app[k].endpoint = "webhook_handler" /\ app[k].ch = i}

\* effective_path of the specification: /webhook/{webhook_path} if set,
\* otherwise /webhook/{name}.
EffectivePath(i) ==
  IF Truthy(channels[i]._webhook_path)
  THEN "/webhook/" \o channels[i]._webhook_path
  ELSE "/webhook/" \o channels[i].name

Done(r) == requests[r].pc = "done"

\* ---- C1 ------------------------------------------------------------------
\* C1: every enabled WebhookChannel of the mapping with no webhook_path
\* configured has a POST route, and its path is exactly /webhook/{name}.
C1_DefaultRouteIsName ==
  \A i \in Chans :
    (IsEnabledWebhook(i) /\ channels[i]._webhook_path = None) =>
      /\ RoutesTo(i) # {}
      /\ \A k \in RoutesTo(i) :
           app[k].method = "POST" /\ app[k].path = "/webhook/" \o channels[i].name

\* ---- C2 ------------------------------------------------------------------
\* C2: every enabled WebhookChannel of the mapping with an explicit
\* webhook_path = p has a POST route, and its path is exactly /webhook/{p},
\* not /webhook/{name}.
C2_ExplicitRouteIsPath ==
  \A i \in Chans :
    (IsEnabledWebhook(i) /\ Truthy(channels[i]._webhook_path)) =>
      /\ RoutesTo(i) # {}
      /\ \A k \in RoutesTo(i) :
           /\ app[k].method = "POST"
           /\ app[k].path = "/webhook/" \o channels[i]._webhook_path
           /\ app[k].path # "/webhook/" \o channels[i].name

\* ---- C3 ------------------------------------------------------------------
\* The path _register_webhooks registers for channel i.
RegisteredPath(i) == WebhookRoute(channels, i).path

EnabledWebhooks == {i \in Chans : IsEnabledWebhook(i)}

DistinctPaths ==
  \A i, j \in EnabledWebhooks : i # j => RegisteredPath(i) # RegisteredPath(j)

Accepted(r) == requests[r].pc # "idle"

HandlerEntered(r) ==
  requests[r].pc = "handle_webhook" \/ requests[r].returned # <<>> \/ requests[r].raised

\* C3: with at least two enabled webhook channels on distinct paths, a POST
\* to the path registered for channel A invokes handle_webhook of A and of
\* no other channel.
C3_RouteBoundToOwnChannel ==
  (Cardinality(EnabledWebhooks) >= 2 /\ DistinctPaths) =>
    \A r \in Tasks : \A i \in EnabledWebhooks :
      (Accepted(r) /\ requests[r].method = "POST"
         /\ requests[r].path = RegisteredPath(i)) =>
        /\ \A k \in 1..Len(requests[r].invoked) : requests[r].invoked[k].ch = i
        /\ HandlerEntered(r) => Len(requests[r].invoked) >= 1

\* A POST to the first of two routes was answered by the first channel.
C3_Witness ==
  /\ Len(channels) >= 2
  /\ {1, 2} \subseteq EnabledWebhooks
  /\ DistinctPaths
  /\ \E r \in Tasks :
       /\ Done(r) /\ requests[r].status = 200
       /\ requests[r].path = RegisteredPath(1)
       /\ Len(requests[r].invoked) = 1 /\ requests[r].invoked[1].ch = 1

\* ---- C4 ------------------------------------------------------------------
\* The paths derived for channel i: the specification's effective path and,
\* for a WebhookChannel, the path _register_webhooks computes.
DerivedPaths(i) ==
  {EffectivePath(i)}
    \cup (IF channels[i].kind = "WebhookChannel" THEN {RegisteredPath(i)} ELSE {})

PostTo(r, path) ==
  Accepted(r) /\ requests[r].method = "POST" /\ requests[r].path = path

RejectedNotFound(r) ==
  Done(r) /\ requests[r].status = 404 /\ requests[r].invoked = <<>>

\* C4 as claimed: a channel that is no WebhookChannel or is disabled has no
\* route, and every POST to its derived path is answered not-found without
\* any handler being invoked.
C4_NoRouteAlwaysNotFound ==
  \A i \in Chans :
    ~IsEnabledWebhook(i) =>
      /\ RoutesTo(i) = {}
      /\ \A r \in Tasks : \A path \in DerivedPaths(i) :
           PostTo(r, path) => RejectedNotFound(r)

\* C4 as amended: such a channel has no route and its handle_webhook is never
\* invoked; a POST to its derived path is answered not-found without any
\* handler being invoked unless an enabled webhook channel of the mapping
\* registered that same path.
C4_NoRouteForDisabled ==
  \A i \in Chans :
    ~IsEnabledWebhook(i) =>
      /\ RoutesTo(i) = {}
      /\ \A r \in Tasks : \A k \in 1..Len(requests[r].invoked) :
           requests[r].invoked[k].ch # i
      /\ \A r \in Tasks : \A path \in DerivedPaths(i) :
           (PostTo(r, path)
              /\ ~\E j \in EnabledWebhooks : RegisteredPath(j) = path) =>
             RejectedNotFound(r)

\* A disabled channel sits beside an enabled one, and a POST to the disabled
\* channel's derived path was answered not-found.
C4_Witness ==
  \E i \in Chans : \E r \in Tasks :
    /\ channels[i].kind = "WebhookChannel" /\ ~channels[i]._webhook_enabled
    /\ EnabledWebhooks # {}
    /\ PostTo(r, RegisteredPath(i))
    /\ RejectedNotFound(r)

\* ---- C5 ------------------------------------------------------------------
Is4xx(status) == status \in 400..499
Is5xx(status) == status \in 500..599

\* C5: a POST to a registered webhook path whose body is not valid JSON is
\* answered with a client error (4xx) and the bound handle_webhook is not
\* invoked.
C5_MalformedBodyIsClientError ==
  \A r \in Tasks :
    (Done(r) /\ requests[r].method = "POST" /\ requests[r].path \in WebhookPaths
       /\ requests[r].body = BadBody) =>
      Is4xx(requests[r].status) /\ requests[r].invoked = <<>>

\* ---- C6 ------------------------------------------------------------------
\* C6: when handle_webhook returns a mapping m, the response is 200 with body
\* exactly m, and handle_webhook was called once with the request's headers
\* and the decoded body.
C6_ResponseIsHandlerMapping ==
  \A r \in Tasks :
    /\ requests[r].returned # <<>> =>
         /\ Done(r)
         /\ requests[r].status = 200
         /\ requests[r].response = requests[r].returned[1]
    /\ HandlerEntered(r) =>
         /\ Len(requests[r].invoked) = 1
         /\ requests[r].invoked[1].headers = [x_request_id |-> r]
         /\ requests[r].body = GoodBody
         /\ requests[r].invoked[1].data = [text |-> "hi"]

\* A handler returned {"echo": 42} and that is the body of the 200 response.
C6_Witness ==
  \E r \in Tasks :
    /\ requests[r].returned = <<[echo |-> 42]>>
    /\ requests[r].status = 200
    /\ requests[r].response = [echo |-> 42]

\* ---- C7 ------------------------------------------------------------------
\* C7: when handle_webhook raises, the request ends with a server error (5xx)
\* and handle_webhook has been invoked once; no request invokes it twice.
C7_HandlerFailureIsServerError ==
  \A r \in Tasks :
    /\ Len(requests[r].invoked) <= 1
    /\ requests[r].raised =>
         /\ Done(r)
         /\ Is5xx(requests[r].status)
         /\ Len(requests[r].invoked) = 1
         /\ requests[r].returned = <<>>

\* A handler raised and its request ended with status 500.
C7_Witness ==
  \E r \in Tasks :
    requests[r].raised /\ Done(r) /\ requests[r].status = 500

\* ---- C8 ------------------------------------------------------------------
\* C8: whatever mapping was passed, GET /health is routed to health_check and
\* every GET /health is answered 200 {"status": "ok"}.
C8_HealthAlwaysOk ==
  /\ MatchRoute(app, "GET", "/health") # 0
  /\ app[MatchRoute(app, "GET", "/health")].endpoint = "health_check"
  /\ \A r \in Tasks :
       (Accepted(r) /\ requests[r].method = "GET" /\ requests[r].path = "/health") =>
         /\ Done(r)
         /\ requests[r].status = 200
         /\ requests[r].response = [status |-> "ok"]
         /\ requests[r].invoked = <<>>

\* GET /health was answered by a gateway that has two webhook routes.
C8_Witness ==
  /\ Cardinality(EnabledWebhooks) >= 2
  /\ \E r \in Tasks :
       /\ Done(r) /\ requests[r].method = "GET" /\ requests[r].path = "/health"
       /\ requests[r].status = 200

\* ---- C9 ------------------------------------------------------------------
\* The event loop runs every task that is ready, and handlers terminate.
FairDispatch ==
  \A r \in Tasks :
    /\ WF_vars(read_json(r))
    /\ WF_vars(handler_raises(r) \/ \E m \in Mappings : handler_returns(r, m))

\* Mappings in which every channel is an enabled WebhookChannel.
InitAllEnabled ==
  \E arg \in ChannelArgs :
    /\ \A i \in 1..Len(arg.value) :
         arg.value[i].kind = "WebhookChannel" /\ arg.value[i]._webhook_enabled
    /\ __init__(arg)

SpecDispatchFair == InitAllEnabled /\ [][NextDispatch]_vars /\ FairDispatch

\* Tasks r and q are POSTs to the routes of two different channels.
OnDifferentRoutes(r, q) ==
  /\ r # q
  /\ \E a, b \in EnabledWebhooks :
       /\ a # b /\ RegisteredPath(a) # RegisteredPath(b)
       /\ PostTo(r, RegisteredPath(a)) /\ PostTo(q, RegisteredPath(b))

\* Task r can take its next step now.
CanProceed(r) ==
  /\ requests[r].pc = "json" => ENABLED read_json(r)
  /\ requests[r].pc = "handle_webhook" =>
       /\ ENABLED handler_raises(r)
       /\ \A m \in Mappings : ENABLED handler_returns(r, m)

OwnChannelOnly(r) ==
  \A k \in 1..Len(requests[r].invoked) :
    /\ requests[r].invoked[k].ch \in EnabledWebhooks
    /\ RegisteredPath(requests[r].invoked[k].ch) = requests[r].path
    /\ requests[r].invoked[k].headers = [x_request_id |-> r]

NoCrossTalk ==
  \A r, q \in Tasks :
    OnDifferentRoutes(r, q) =>
      /\ OwnChannelOnly(r)
      /\ \A k \in 1..Len(requests[r].invoked) : \A l \in 1..Len(requests[q].invoked) :
           requests[r].invoked[k].ch # requests[q].invoked[l].ch
      /\ InFlight(q) => CanProceed(r)

\* C9: two concurrent POSTs to the routes of two different channels are each
\* dispatched to their own channel, neither is ever blocked while the other
\* is suspended, and both complete.
C9_ConcurrentPostsIsolated ==
  /\ []NoCrossTalk
  /\ \A r \in Tasks : InFlight(r) ~> Done(r)

\* Both tasks are suspended inside the handlers of two different channels.
C9_Witness ==
  \E r, q \in Tasks :
    /\ OnDifferentRoutes(r, q)
    /\ requests[r].pc = "handle_webhook" /\ requests[q].pc = "handle_webhook"
    /\ requests[r].invoked[1].ch # requests[q].invoked[1].ch

\* ---- C10 -----------------------------------------------------------------
\* C10: a start_async() call leaves the serving loop, and returns, only if
\* stop() has been called since that call was made.
C10_ReturnsOnlyAfterStop ==
  \A c \in Calls :
    serve_pc[c] \in {"shutdown", "returned"} => c \in stop_seen /\ should_exit[c]

\* A start_async() call that served a request has returned after a stop().
C10_Witness ==
  \E c \in Calls : \E r \in Tasks :
    /\ serve_pc[c] = "returned" /\ c \in stop_seen
    /\ Done(r) /\ requests[r].srv = c /\ requests[r].status = 200

\* ---- C11 -----------------------------------------------------------------
\* The event loop runs every task that is ready, handlers terminate, and
\* serve() keeps running its main loop and its shutdown.
FairLifecycle ==
  /\ \A c \in Calls : WF_vars(main_loop_exit(c)) /\ WF_vars(serve_returns(c))
  /\ \A r \in Tasks :
       /\ WF_vars(read_json(r))
       /\ WF_vars(handler_raises(r) \/ \E m \in Mappings : handler_returns(r, m))

SpecLifecycleFair == SpecLifecycle /\ FairLifecycle

\* stop() only sets a flag: the step that sets it moves no start_async()
\* call and no request task.
StopDoesNotWait ==
  [][should_exit' # should_exit => (serve_pc' = serve_pc /\ requests' = requests)]_vars

\* C11 as claimed: stop() does not wait, and every start_async() call that
\* is pending when stop() is called eventually returns.
C11_StopReturnsEveryPendingCall ==
  /\ StopDoesNotWait
  /\ \A c \in Calls : (Running(c) /\ c \in stop_seen) ~> (serve_pc[c] = "returned")

\* C11 as amended: stop() does not wait, and the start_async() call whose
\* server stop() signalled (the most recent call) eventually returns.
C11_StopReturnsSignalledCall ==
  /\ StopDoesNotWait
  /\ \A c \in Calls : (Running(c) /\ should_exit[c]) ~> (serve_pc[c] = "returned")

\* stop() has been called while a request was in flight on the serving
\* server, and start_async() is still pending.
C11_Witness ==
  \E c \in Calls : \E r \in Tasks :
    /\ serve_pc[c] = "serving" /\ should_exit[c]
    /\ InFlight(r) /\ requests[r].srv = c

\* ---- C12 -----------------------------------------------------------------
Failed(r) == Done(r) /\ Is5xx(requests[r].status)

FailureStep(r) == ~Failed(r) /\ Failed(r)'

OthersFailed(r) == \E q \in Tasks : q # r /\ Failed(q)

\* C12: the step in which a request fails (malformed body or handler
\* raising) changes nothing but that request's task; every other request is
\* still dispatched to its own channel only, finishes, and when its handler
\* returns a mapping that mapping is its response; the gateway keeps serving.
C12_FailuresAreLocal ==
  /\ [][\A r \in Tasks : FailureStep(r) =>
          /\ \A q \in Tasks : q # r => requests'[q] = requests[q]
          /\ UNCHANGED <<channels, app, _server, should_exit, serve_pc>>]_vars
  /\ [](\A r \in Tasks : OthersFailed(r) =>
          /\ \E c \in Calls : serve_pc[c] = "serving" /\ ~should_exit[c]
          /\ OwnChannelOnly(r)
          /\ Len(requests[r].invoked) <= 1
          /\ (Done(r) /\ requests[r].returned # <<>>) =>
               /\ requests[r].status = 200
               /\ requests[r].response = requests[r].returned[1])
  /\ \A r \in Tasks : (OthersFailed(r) /\ InFlight(r)) ~> Done(r)

\* One request failed on a malformed body; another request on the same
\* route was answered with its own handler's mapping.
C12_Witness ==
  \E q, r \in Tasks :
    /\ q # r /\ requests[q].path = requests[r].path
    /\ Failed(q) /\ requests[q].body = BadBody
    /\ Done(r) /\ requests[r].status = 200
    /\ requests[r].returned = <<requests[r].response>>

\* ---- C13 -----------------------------------------------------------------
\* Faulty variant: the route list is built again from the current mapping.
RoutesRebuilt(chans) == _create_app(chans)

\* Neither class observes its attributes: after an assignment to
\* self.channels or to a channel's _webhook_enabled the route list is the
\* one __init__ built.
RoutesAfterChange(chans) == app

\* Code outside the gateway assigns the enabled flag of a channel object.
set_webhook_enabled(i, b) ==
  /\ i \in 1..Len(channels)
  /\ isinstance_WebhookChannel(channels[i])
  /\ channels[i]._webhook_enabled # b
  /\ channels' = [channels EXCEPT ![i]._webhook_enabled = b]
  /\ app' = RoutesAfterChange(channels')
  /\ UNCHANGED <<_server, should_exit, serve_pc, stop_seen, requests>>

\* Code outside the gateway adds an enabled webhook channel under a new key
\* of self.channels.
channels_setitem ==
  /\ Len(channels) < MaxChannels
  /\ channels' = Append(channels,
                   WebhookChannelInit(ChannelNames[Len(channels) + 1], [x \in {} |-> None]))
  /\ app' = RoutesAfterChange(channels')
  /\ UNCHANGED <<_server, should_exit, serve_pc, stop_seen, requests>>

\* One start_async() call, stop(), one POST, and changes of the channels
\* after construction.
NextMutate ==
  \/ start_async(1)
  \/ stop
  \/ main_loop_exit(1)
  \/ serve_returns(1)
  \/ \E path \in ClientPaths : accept(1, 1, "POST", path, GoodBody)
  \/ read_json(1)
  \/ \E m \in Mappings : handler_returns(1, m)
  \/ handler_raises(1)
  \/ \E i \in 1..MaxChannels, b \in BOOLEAN : set_webhook_enabled(i, b)
  \/ channels_setitem

SpecMutate == Init /\ [][NextMutate]_vars

\* The answer the route list gives to a request: 0 for no route.
RoutedTo(method, path) ==
  LET i == MatchRoute(app, method, path)
  IN IF i = 0 THEN 0 ELSE app[i].ch

\* C13: no step (request, start_async(), stop(), a change of a channel's
\* enabled flag or of the channels mapping) changes the route list, and a
\* request is answered by the route list alone, whatever the channels are
\* by then.
C13_RouteTableImmutable ==
  /\ [][app' = app]_vars
  /\ [](\A r \in Tasks : Accepted(r) =>
          /\ requests[r].ch = RoutedTo(requests[r].method, requests[r].path)
          /\ requests[r].ch = 0 => (requests[r].invoked = <<>> /\ Done(r)))

\* A POST is inside the handler of a channel that was disabled after
\* construction, and the mapping has a channel added after construction
\* that has no route.
C13_Witness ==
  \E r \in Tasks :
    /\ requests[r].pc = "handle_webhook"
    /\ ~webhook_enabled(channels[requests[r].ch])
    /\ \E i \in Chans : IsEnabledWebhook(i) /\ RoutesTo(i) = {}

\* ---- C14 -----------------------------------------------------------------
\* Server c accepts the connection of task r in this step.
AcceptStep(r, c) == requests[r].srv # c /\ requests'[r].srv = c

\* Every request task of server c has finished when its start_async() has
\* returned.
DrainedBeforeReturn ==
  \A c \in Calls : serve_pc[c] = "returned" =>
    \A r \in Tasks : requests[r].srv = c => Done(r)

\* C14 as claimed: once stop() has been called during a start_async() call,
\* that call's listener accepts no new connection, and its request tasks
\* have finished when the call returns.
C14_NoAcceptAfterStop ==
  /\ [][\A r \in Tasks, c \in Calls : AcceptStep(r, c) => c \notin stop_seen]_vars
  /\ []DrainedBeforeReturn

\* C14 as amended: once the main loop of the signalled server has seen the
\* flag, its listener accepts no new connection, and every request task of
\* that server, accepted before or after stop(), has finished when its
\* start_async() returns.
C14_NoAcceptAfterMainLoop ==
  /\ [][\A r \in Tasks, c \in Calls : AcceptStep(r, c) => serve_pc[c] = "serving"]_vars
  /\ []DrainedBeforeReturn

\* The signalled server has closed its listener and waits for a request
\* task that is still inside its handler.
C14_Witness ==
  \E c \in Calls : \E r \in Tasks :
    /\ serve_pc[c] = "shutdown" /\ c \in stop_seen
    /\ requests[r].srv = c /\ requests[r].pc = "handle_webhook"

\* ---- C15 -----------------------------------------------------------------
\* The lifecycle state of the gateway, read off its start_async() calls.
GatewayState ==
  IF \A c \in Calls : serve_pc[c] = "idle" THEN "Unstarted"
  ELSE IF \E c \in Calls : Running(c) THEN "Serving"
  ELSE "Stopped"

LifecycleTransitions ==
  {<<"Unstarted", "Unstarted">>, <<"Unstarted", "Serving">>,
   <<"Serving", "Serving">>, <<"Serving", "Stopped">>,
   <<"Stopped", "Stopped">>}

LifecycleStep(from, to) == <<from, to>> \in LifecycleTransitions

\* C15: the gateway is Unstarted after construction, and every step keeps
\* its state or moves it from Unstarted to Serving or from Serving to
\* Stopped; from Stopped it never moves again.
C15_StoppedIsTerminal ==
  [][LifecycleStep(GatewayState, GatewayState')]_vars

\* ---- C16 -----------------------------------------------------------------
\* Enabled webhook channels i and j, i before j in the mapping, register the
\* same path.
Collide(i, j) ==
  /\ i \in EnabledWebhooks /\ j \in EnabledWebhooks
  /\ i < j /\ RegisteredPath(i) = RegisteredPath(j)

\* Both colliding channels got their route: construction did not fail and
\* did not drop either registration.
BothRegistered ==
  /\ Len(app) = 1 + Cardinality(EnabledWebhooks)
  /\ \A i \in EnabledWebhooks : RoutesTo(i) # {}

\* C16 as claimed: with two enabled webhook channels on the same path,
\* construction succeeds and every POST to that path is dispatched to the
\* channel registered last, never to an earlier one.
C16_LastRegistrationWins ==
  /\ BothRegistered
  /\ \A i, j \in Chans : \A r \in Tasks :
       (Collide(i, j) /\ PostTo(r, RegisteredPath(j))) =>
         /\ requests[r].ch # i
         /\ \A k \in 1..Len(requests[r].invoked) : requests[r].invoked[k].ch # i

\* C16 as amended: with two enabled webhook channels on the same path,
\* construction succeeds and every POST to that path is dispatched to the
\* channel registered first, never to a later one.
C16_FirstRegistrationWins ==
  /\ BothRegistered
  /\ \A i, j \in Chans : \A r \in Tasks :
       (Collide(i, j) /\ PostTo(r, RegisteredPath(j))) =>
         /\ requests[r].ch # j
         /\ \A k \in 1..Len(requests[r].invoked) : requests[r].invoked[k].ch # j
         /\ (\A h \in Chans : ~Collide(h, i)) => requests[r].ch = i

\* Two enabled channels registered the same path, and a POST to it was
\* answered by the handler of the first.
C16_Witness ==
  \E i, j \in Chans : \E r \in Tasks :
    /\ Collide(i, j) /\ PostTo(r, RegisteredPath(j))
    /\ Done(r) /\ requests[r].status = 200
    /\ Len(requests[r].invoked) = 1 /\ requests[r].invoked[1].ch = i

\* ---- C17 -----------------------------------------------------------------
\* A call of stop() in this state would change something.
StopChangesState == ENABLED (stop /\ vars' # vars)

\* stop() has been called since the stored server was created.
StopAlreadyCalled == _server # 0 /\ should_exit[_server]

\* C17: stop() while Unstarted changes nothing; a start_async() call made
\* afterwards serves with its flag clear until stop() is called during that
\* call; a stop() that follows a stop() changes nothing.
C17_StopUnstartedAndRepeated ==
  /\ [](GatewayState = "Unstarted" => ~StopChangesState)
  /\ [](\A c \in Calls : (serve_pc[c] # "idle" /\ c \notin stop_seen) =>
          serve_pc[c] = "serving" /\ ~should_exit[c])
  /\ [][should_exit' # should_exit => StopAlreadyCalled']_vars
  /\ [](StopAlreadyCalled => ~StopChangesState)

\* stop() has been called on the serving gateway and can be called again.
C17_Witness ==
  /\ StopAlreadyCalled /\ serve_pc[_server] = "serving"
  /\ \A c \in Calls : c # _server => serve_pc[c] = "idle"
  /\ ENABLED stop

\* ---- C18 -----------------------------------------------------------------
\* Call c of start_async() is made in this step.
StartStep(c) == serve_pc[c] = "idle" /\ serve_pc'[c] = "serving"

\* C18: every start_async() call replaces the stored server by its own, and
\* a step that sets an exit flag sets the flag of the stored server and of
\* no other, so the server of an earlier call that is still serving keeps
\* its flag clear.
C18_StopSignalsNewestOnly ==
  /\ [][\A c \in Calls : StartStep(c) => _server' = c]_vars
  /\ [][\A c \in Calls : should_exit'[c] # should_exit[c] =>
          c = _server /\ should_exit'[c]]_vars
  /\ [](\A c \in Calls : should_exit[c] => c \in stop_seen)

\* stop() was called while two start_async() calls were serving: the later
\* one has its flag set, the earlier one is still serving with its flag
\* clear.
C18_Witness ==
  \E c, d \in Calls :
    /\ c < d /\ _server = d
    /\ serve_pc[c] = "serving" /\ ~should_exit[c] /\ c \in stop_seen
    /\ should_exit[d]

\* ---- C19 -----------------------------------------------------------------
\* The channel object as it would be with no webhook_path in its config.
WithoutOverride(channel) == [channel EXCEPT !._webhook_path = None]

\* The mapping with channel i replaced by its no-override twin.
ChannelsWithoutOverride(i) == [channels EXCEPT ![i] = WithoutOverride(channels[i])]

\* C19: a WebhookChannel configured with webhook_path "" has the webhook_path
\* property /webhook/{name} it would have with no override, and the gateway
\* builds for it the route list it would build with no override.
C19_EmptyPathIsNoOverride ==
  \A i \in Chans :
    (channels[i].kind = "WebhookChannel" /\ channels[i]._webhook_path = "") =>
      /\ webhook_path(channels[i]) = webhook_path(WithoutOverride(channels[i]))
      /\ webhook_path(channels[i]) = "/webhook/" \o channels[i].name
      /\ app = _create_app(ChannelsWithoutOverride(i))
      /\ \A k \in RoutesTo(i) : app[k] = WebhookRoute(ChannelsWithoutOverride(i), i)

\* An enabled channel configured with webhook_path "" answered a POST to
\* the route built from its name.
C19_Witness ==
  \E i \in EnabledWebhooks : \E r \in Tasks :
    /\ channels[i]._webhook_path = ""
    /\ PostTo(r, WebhookRoute(ChannelsWithoutOverride(i), i).path)
    /\ Done(r) /\ requests[r].status = 200
    /\ Len(requests[r].invoked) = 1 /\ requests[r].invoked[1].ch = i
====
